---- MODULE Spec2Model ----
(***************************************************************************)
(* A model of app.py, the Streamlit audio/video summarizer.                *)
(*                                                                         *)
(* Streamlit executes the whole script once per interaction (a "run"),     *)
(* each session in its own thread, so runs may follow one another or       *)
(* overlap at any step.  A run resolves the API key, builds the client,    *)
(* shows the upload widget and the button, checks the size and calls       *)
(* analyze_media_with_gemini, which stages the bytes in a temporary file,  *)
(* uploads it, asks the model for a transcript and summary, and cleans up  *)
(* in its finally clause.                                                  *)
(*                                                                         *)
(* The local file system and the remote File API are shared by all runs;   *)
(* everything else is local to a run and is kept here after the run has    *)
(* ended, as the record of what it did.  The st.* display calls other than *)
(* the final result display are not modelled, nor is the MIME type, which  *)
(* analyze_media_with_gemini receives and never uses.                      *)
(***************************************************************************)
EXTENDS Naturals, Sequences, FiniteSets, TLC

\* ------------------------------------------------------------------ bounds

\* The runs of the script: each starts at any time, so two of them cover two
\* runs one after the other as well as two overlapping ones.
Runs == {1, 2}

\* The random name parts tempfile can draw, and the names the File API can give.
NumPaths == 2
NumHandles == 2

\* ------------------------------------------------------------- constants

None == "None"
Unbound == "Unbound"

\* app.py:191, 50 * 1024 * 1024
SizeLimit == 50 * 1024 * 1024

ApiFailureText == "Analysis failed due to API connection error."
UnexpectedFailureText == "Analysis failed due to an unexpected error."
FailurePrefix == "Analysis failed"

\* Exceptions a call can raise: the SDK's APIError, or any other Exception
\* (OSError, a transport error, ...).
ExcClasses == {"GeminiAPIError", "Exception"}

\* ------------------------------------------------------------------ inputs

FileNames == {"talk.mp3"}
FileSizes == {SizeLimit - 1, SizeLimit, SizeLimit + 1}

\* response.text: absent (no candidate), empty, a formatted answer, or an
\* answer whose own first words are the failure prefix.
ResponseTexts ==
    { None, "", "## Full Transcript ... ## Key Point Summary (5 Points) ...",
      "Analysis failed to find speech" }

\* ----------------------------------------------------------- pure helpers

\* str.startswith
StartsWith(text, prefix) ==
    /\ Len(text) >= Len(prefix)
    /\ SubSeq(text, 1, Len(prefix)) = prefix

\* os.path.splitext(name)[1]: from the last dot on, "" when there is no dot
\* or the only dots lead the name.
splitext(name) ==
    LET dots == {i \in 1..Len(name) : SubSeq(name, i, i) = "."}
        lead == {i \in 1..Len(name) :
                    \A j \in 1..i : SubSeq(name, j, j) = "."}
        last == CHOOSE i \in dots : \A j \in dots : j <= i
    IN  IF dots \subseteq lead THEN "" ELSE SubSeq(name, last, Len(name))

\* The name tempfile gives a file: directory, prefix, random part, suffix.
TempName(k, suffix) == "/tmp/tmp" \o ToString(k) \o suffix

\* The name the File API gives an uploaded file.
HandleName(k) == "files/" \o ToString(k)

VARIABLES
    pc,             \* where each run of the script stands
    API_KEY,        \* the key the run resolved, or None
    client,         \* the client the run built, or None
    uploaded_file,  \* the widget's file: NoFile or [name, size]
    invoked,        \* analyze_media_with_gemini was called in this run
    temp_path,      \* the local of that name
    gemini_file,    \* the local of that name: Unbound or the handle's name
    staged,         \* the path NamedTemporaryFile created in this run, or None
    calls,          \* the remote calls of this run, in order
    failure,        \* the exception raised inside the try block: [step, cls]
    pending,        \* what the try statement is about to hand back
    warned,         \* st.warning was shown for a failed remote delete
    cleaned,        \* the owners of what this run's finally clause deleted
    outcome,        \* how the call ended, as the caller sees it
    shown,          \* what the caller displayed
    disk,           \* local files: [path, by]
    remote          \* files stored by the File API: [name, by]

vars == << pc, API_KEY, client, uploaded_file, invoked, temp_path,
           gemini_file, staged, calls, failure, pending, warned, cleaned,
           outcome, shown, disk, remote >>

\* "uploaded_file is None", no exception raised, nothing handed back yet.
NoFile == [name |-> None, size |-> 0]
NoFailure == [step |-> None, cls |-> None]
Nothing == [kind |-> None, text |-> None, lang |-> None, origin |-> None]

\* A returned (text, language) pair, and an exception leaving the function.
Returned(text, lang) ==
    [kind |-> "returned", text |-> text, lang |-> lang, origin |-> None]
Raised(origin) ==
    [kind |-> "raised", text |-> None, lang |-> None, origin |-> origin]

exists(path) == \E f \in disk : f.path = path

Ended(r) == pc[r] \in {"done", "stopped", "crashed"}

Init ==
    /\ pc = [r \in Runs |-> "secrets"]
    /\ API_KEY = [r \in Runs |-> None]
    /\ client = [r \in Runs |-> None]
    /\ uploaded_file = [r \in Runs |-> NoFile]
    /\ invoked = [r \in Runs |-> FALSE]
    /\ temp_path = [r \in Runs |-> None]
    /\ gemini_file = [r \in Runs |-> Unbound]
    /\ staged = [r \in Runs |-> None]
    /\ calls = [r \in Runs |-> << >>]
    /\ failure = [r \in Runs |-> NoFailure]
    /\ pending = [r \in Runs |-> Nothing]
    /\ warned = [r \in Runs |-> FALSE]
    /\ cleaned = [r \in Runs |-> [local |-> {}, remote |-> {}]]
    /\ outcome = [r \in Runs |-> Nothing]
    /\ shown = [r \in Runs |-> None]
    /\ disk = {}
    /\ remote = {}

\* ------------------------------------------------------- the script's run

\* Mutant of OnKeyError: the st.stop() after the error message is missing.
OnKeyErrorContinue == "client"

\* Where the run goes when st.secrets raises KeyError: st.error, st.stop().
OnKeyError == "stopped"

\* API_KEY = st.secrets["GEMINI_API_KEY"] inside "try ... except KeyError":
\* the key is found, or KeyError is handled, or another exception (no
\* secrets file at all) passes the except clause and ends the run.
LookupKey(r) ==
    /\ pc[r] = "secrets"
    /\ \/ /\ API_KEY' = [API_KEY EXCEPT ![r] = "key"]
          /\ pc' = [pc EXCEPT ![r] = "client"]
       \/ /\ pc' = [pc EXCEPT ![r] = OnKeyError]
          /\ UNCHANGED API_KEY
       \/ /\ pc' = [pc EXCEPT ![r] = "crashed"]
          /\ UNCHANGED API_KEY
    /\ UNCHANGED << client, uploaded_file, invoked, temp_path,
                    gemini_file, staged, calls, failure, pending, warned,
                    cleaned, outcome, shown, disk, remote >>

\* client = genai.Client(api_key=API_KEY); any exception: st.error, st.stop().
BuildClient(r) ==
    /\ pc[r] = "client"
    /\ \E built \in BOOLEAN :
          IF built
          THEN /\ client' = [client EXCEPT ![r] = "client"]
               /\ pc' = [pc EXCEPT ![r] = "uploader"]
          ELSE /\ pc' = [pc EXCEPT ![r] = "stopped"]
               /\ UNCHANGED client
    /\ UNCHANGED << API_KEY, uploaded_file, invoked, temp_path,
                    gemini_file, staged, calls, failure, pending, warned,
                    cleaned, outcome, shown, disk, remote >>

\* uploaded_file = st.file_uploader(...); "if uploaded_file is not None".
FileUploader(r) ==
    /\ pc[r] = "uploader"
    /\ \/ /\ pc' = [pc EXCEPT ![r] = "done"]
          /\ UNCHANGED uploaded_file
       \/ \E name \in FileNames, size \in FileSizes :
             /\ uploaded_file' =
                   [uploaded_file EXCEPT ![r] = [name |-> name, size |-> size]]
             /\ pc' = [pc EXCEPT ![r] = "button"]
    /\ UNCHANGED << API_KEY, client, invoked, temp_path,
                    gemini_file, staged, calls, failure, pending, warned,
                    cleaned, outcome, shown, disk, remote >>

\* if st.button("Generate Transcript and Summary")
Button(r) ==
    /\ pc[r] = "button"
    /\ \E clicked \in BOOLEAN :
          pc' = [pc EXCEPT ![r] = IF clicked THEN "sizecheck" ELSE "done"]
    /\ UNCHANGED << API_KEY, client, uploaded_file, invoked,
                    temp_path, gemini_file, staged, calls, failure, pending,
                    warned, cleaned, outcome, shown, disk, remote >>

\* Mutant of ExceedsLimit: the comparison is off by one.
ExceedsLimitOrEqual(size) == size >= SizeLimit

\* uploaded_file.size > (50 * 1024 * 1024)
ExceedsLimit(size) == size > SizeLimit

\* The size check, and in its else branch the call of
\* analyze_media_with_gemini up to the try statement (temp_path = None).
SizeCheck(r) ==
    /\ pc[r] = "sizecheck"
    /\ IF ExceedsLimit(uploaded_file[r].size)
       THEN /\ shown' = [shown EXCEPT ![r] = "size_error"]
            /\ pc' = [pc EXCEPT ![r] = "done"]
            /\ UNCHANGED << invoked, temp_path >>
       ELSE /\ invoked' = [invoked EXCEPT ![r] = TRUE]
            /\ temp_path' = [temp_path EXCEPT ![r] = None]
            /\ pc' = [pc EXCEPT ![r] = "stage"]
            /\ UNCHANGED shown
    /\ UNCHANGED << API_KEY, client, uploaded_file, gemini_file,
                    staged, calls, failure, pending, warned, cleaned, outcome,
                    disk, remote >>

\* ------------------------------------------- analyze_media_with_gemini

\* Mutant of FreshPaths: the name is not checked against the existing files.
AnyPath(suffix) == {TempName(k, suffix) : k \in 1..NumPaths}

\* The paths NamedTemporaryFile may give: the random part is any that names
\* no existing file (the file is opened with O_EXCL).
FreshPaths(suffix) ==
    {TempName(k, suffix) : k \in 1..NumPaths} \ {f.path : f \in disk}

\* The names the File API may give a new file: any not naming a stored file.
FreshHandles == {HandleName(k) : k \in 1..NumHandles} \ {f.name : f \in remote}

\* Mutant of ExceptClause: the "except Exception" clause is missing.
ExceptClauseApiOnly(cls, origin) ==
    IF cls = "GeminiAPIError"
    THEN Returned(ApiFailureText, "")
    ELSE Raised(origin)

\* Mutant of ExceptClause: both clauses hand back the same message.
ExceptClauseOneMessage(cls, origin) == Returned(UnexpectedFailureText, "")

\* The except clauses of the try statement: "except GeminiAPIError" returns
\* the API message, "except Exception" the other one.
ExceptClause(cls, origin) ==
    IF cls = "GeminiAPIError"
    THEN Returned(ApiFailureText, "")
    ELSE Returned(UnexpectedFailureText, "")

\* file_suffix = splitext(...); NamedTemporaryFile(delete=False, ...);
\* tmp_file.write(uploaded_file.read()); temp_path = tmp_file.name.
\* The file may fail to be created; once created, reading or writing may
\* fail, and then the with block is left before temp_path is assigned.
Stage(r) ==
    /\ pc[r] = "stage"
    /\ LET file_suffix == splitext(uploaded_file[r].name)
           raise ==
               /\ failure' = [failure EXCEPT
                                ![r] = [step |-> "staging", cls |-> "Exception"]]
               /\ pending' = [pending EXCEPT
                                ![r] = ExceptClause("Exception", "staging")]
               /\ pc' = [pc EXCEPT ![r] = "finally"]
       IN  \/ /\ raise
              /\ UNCHANGED << disk, staged, temp_path >>
           \/ \E path \in FreshPaths(file_suffix) :
                 /\ disk' = disk \cup {[path |-> path, by |-> r]}
                 /\ staged' = [staged EXCEPT ![r] = path]
                 /\ \/ /\ raise
                       /\ UNCHANGED temp_path
                    \/ /\ temp_path' = [temp_path EXCEPT ![r] = path]
                       /\ pc' = [pc EXCEPT ![r] = "upload"]
                       /\ UNCHANGED << failure, pending >>
    /\ UNCHANGED << API_KEY, client, uploaded_file, invoked,
                    gemini_file, calls, warned, cleaned, outcome, shown,
                    remote >>

\* Mutant of AfterUpload: a failed upload is swallowed and the run goes on.
AfterUploadSwallowed(ok) == "generate"

\* What follows client.files.upload: the generation call when it returned,
\* the except clauses and the finally clause when it raised.
AfterUpload(ok) == IF ok THEN "generate" ELSE "finally"

\* gemini_file = client.files.upload(file=temp_path)
Upload(r) ==
    /\ pc[r] = "upload"
    /\ \/ \E name \in FreshHandles :
             /\ remote' = remote \cup {[name |-> name, by |-> r]}
             /\ gemini_file' = [gemini_file EXCEPT ![r] = name]
             /\ calls' = [calls EXCEPT ![r] =
                   Append(@, [op |-> "upload", name |-> name, ok |-> TRUE])]
             /\ pc' = [pc EXCEPT ![r] = AfterUpload(TRUE)]
             /\ UNCHANGED << failure, pending >>
       \/ \E cls \in ExcClasses :
             /\ calls' = [calls EXCEPT ![r] =
                   Append(@, [op |-> "upload", name |-> None, ok |-> FALSE])]
             /\ failure' = [failure EXCEPT
                              ![r] = [step |-> "upload", cls |-> cls]]
             /\ pending' = [pending EXCEPT ![r] = ExceptClause(cls, "upload")]
             /\ pc' = [pc EXCEPT ![r] = AfterUpload(FALSE)]
             /\ UNCHANGED << remote, gemini_file >>
    /\ UNCHANGED << API_KEY, client, uploaded_file, invoked,
                    temp_path, staged, warned, cleaned, outcome, shown, disk >>

\* response = client.models.generate_content(...); return response.text, "Unknown"
Generate(r) ==
    /\ pc[r] = "generate"
    /\ \/ \E text \in ResponseTexts :
             /\ calls' = [calls EXCEPT ![r] = Append(@,
                   [op |-> "generate", name |-> gemini_file[r], ok |-> TRUE])]
             /\ pending' = [pending EXCEPT ![r] = Returned(text, "Unknown")]
             /\ UNCHANGED failure
       \/ \E cls \in ExcClasses :
             /\ calls' = [calls EXCEPT ![r] = Append(@,
                   [op |-> "generate", name |-> gemini_file[r], ok |-> FALSE])]
             /\ failure' = [failure EXCEPT
                              ![r] = [step |-> "generate", cls |-> cls]]
             /\ pending' = [pending EXCEPT
                              ![r] = ExceptClause(cls, "generate")]
    /\ pc' = [pc EXCEPT ![r] = "finally"]
    /\ UNCHANGED << API_KEY, client, uploaded_file, invoked,
                    temp_path, gemini_file, staged, warned, cleaned, outcome,
                    shown, disk, remote >>

\* Mutant of HandleBound: the finally clause deletes without the test.
HandleAssumedBound(r) == TRUE

\* if 'gemini_file' in locals()
HandleBound(r) == gemini_file[r] # Unbound

\* The first half of the finally clause: client.files.delete(name=
\* gemini_file.name) inside its own try, whose "except Exception" warns.
FinallyDelete(r) ==
    /\ pc[r] = "finally"
    /\ IF HandleBound(r)
       THEN LET name == gemini_file[r]
                hit == {f \in remote : f.name = name}
            IN  \/ /\ hit # {}
                   /\ remote' = remote \ hit
                   /\ cleaned' = [cleaned EXCEPT
                         ![r].remote = @ \cup {f.by : f \in hit}]
                   /\ calls' = [calls EXCEPT ![r] = Append(@,
                         [op |-> "delete", name |-> name, ok |-> TRUE])]
                   /\ UNCHANGED warned
                \/ /\ warned' = [warned EXCEPT ![r] = TRUE]
                   /\ calls' = [calls EXCEPT ![r] = Append(@,
                         [op |-> "delete", name |-> name, ok |-> FALSE])]
                   /\ UNCHANGED << remote, cleaned >>
       ELSE UNCHANGED << remote, cleaned, calls, warned >>
    /\ pc' = [pc EXCEPT ![r] = "remove"]
    /\ UNCHANGED << API_KEY, client, uploaded_file, invoked,
                    temp_path, gemini_file, staged, failure, pending, outcome,
                    shown, disk >>

\* The second half of the finally clause: "if temp_path and
\* os.path.exists(temp_path): os.remove(temp_path)", outside any try, so a
\* failing os.remove replaces whatever the function was about to hand back.
\* Then the function hands back to the caller; an exception that leaves it
\* is caught nowhere in the script and ends the run.
FinallyRemove(r) ==
    /\ pc[r] = "remove"
    /\ IF temp_path[r] # None /\ exists(temp_path[r])
       THEN LET hit == {f \in disk : f.path = temp_path[r]}
            IN  \/ /\ disk' = disk \ hit
                   /\ cleaned' = [cleaned EXCEPT
                         ![r].local = @ \cup {f.by : f \in hit}]
                   /\ outcome' = [outcome EXCEPT ![r] = pending[r]]
                \/ /\ outcome' = [outcome EXCEPT ![r] = Raised("os.remove")]
                   /\ UNCHANGED << disk, cleaned >>
       ELSE /\ outcome' = [outcome EXCEPT ![r] = pending[r]]
            /\ UNCHANGED << disk, cleaned >>
    /\ pc' = [pc EXCEPT ![r] =
                IF outcome'[r].kind = "returned" THEN "display" ELSE "crashed"]
    /\ UNCHANGED << API_KEY, client, uploaded_file, invoked,
                    temp_path, gemini_file, staged, calls, failure, pending,
                    warned, shown, remote >>

\* ------------------------------------------------------ the result display

\* Mutant of IsSuccess: the failure prefix is not looked at.
IsNonEmpty(text) == text # None /\ text # ""

\* if analysis_result and not analysis_result.startswith("Analysis failed")
IsSuccess(text) ==
    /\ text # None
    /\ text # ""
    /\ ~StartsWith(text, FailurePrefix)

\* analysis_result, _ = analyze_media_with_gemini(...): st.markdown and
\* "Process complete", or "The analysis failed"; the script ends.
Display(r) ==
    /\ pc[r] = "display"
    /\ shown' = [shown EXCEPT ![r] =
          IF IsSuccess(outcome[r].text) THEN "markdown" ELSE "failure"]
    /\ pc' = [pc EXCEPT ![r] = "done"]
    /\ UNCHANGED << API_KEY, client, uploaded_file, invoked,
                    temp_path, gemini_file, staged, calls, failure, pending,
                    warned, cleaned, outcome, disk, remote >>

Next ==
    \E r \in Runs :
        \/ LookupKey(r)
        \/ BuildClient(r)
        \/ FileUploader(r)
        \/ Button(r)
        \/ SizeCheck(r)
        \/ Stage(r)
        \/ Upload(r)
        \/ Generate(r)
        \/ FinallyDelete(r)
        \/ FinallyRemove(r)
        \/ Display(r)

Spec == Init /\ [][Next]_vars

\* ------------------------------------------------------------ the claims

\* The positions in a run's call log of the calls of one operation.
CallsOf(r, op) == {i \in 1..Len(calls[r]) : calls[r][i].op = op}
FailedCalls(r, op) == {i \in CallsOf(r, op) : ~calls[r][i].ok}

\* The call of analyze_media_with_gemini of run r has ended.
InvocationEnded(r) == invoked[r] /\ pc[r] \in {"display", "done", "crashed"}

\* C1: once an invocation of analyze_media_with_gemini has ended, no staged
\* temporary file that it created exists on local storage, whichever step
\* failed.
C1_NoStagedFileAfterEnd ==
    \A r \in Runs :
        InvocationEnded(r) => ~ \E f \in disk : f.by = r

\* C2: in every invocation that has ended, exactly one remote delete request
\* was issued if the upload returned a handle and none otherwise, and the
\* delete request names the handle the upload returned.
C2_DeleteOncePerHandle ==
    \A r \in Runs :
        (Ended(r) \/ InvocationEnded(r)) =>
            LET got == {i \in CallsOf(r, "upload") : calls[r][i].ok}
                dels == CallsOf(r, "delete")
            IN  /\ Cardinality(dels) = IF got = {} THEN 0 ELSE 1
                /\ \A d \in dels :
                      \E u \in got : calls[r][d].name = calls[r][u].name

\* C2, witness: an invocation ended whose upload returned a handle, whose
\* generation call failed, and which issued one delete request.
C2_Witness ==
    \E r \in Runs :
        /\ InvocationEnded(r)
        /\ \E u \in CallsOf(r, "upload") : calls[r][u].ok
        /\ FailedCalls(r, "generate") # {}
        /\ Cardinality(CallsOf(r, "delete")) = 1

C4_CleanupNeverChangesResult ==
    \A r \in Runs :
        InvocationEnded(r) => outcome[r] = pending[r]

\* The spec's error kinds, by the step that failed.
ErrorKind(step) ==
    CASE step = "staging" -> "StagingError"
      [] step = "upload" -> "UploadError"
      [] step = "generate" -> "GenerationError"

C6_SizeCeiling ==
    \A r \in Runs :
        /\ uploaded_file[r].size > 50 * 1024 * 1024 =>
              /\ ~invoked[r]
              /\ staged[r] = None
              /\ calls[r] = << >>
              /\ pc[r] \in {"button", "sizecheck", "done"}
        /\ uploaded_file[r].size <= 50 * 1024 * 1024 =>
              shown[r] # "size_error"
        /\ shown[r] = "size_error" => pc[r] = "done" /\ ~invoked[r]

\* C6, witness: a file one byte over the ceiling was rejected and a file of
\* exactly 50 MiB went into the workflow.
C6_Witness ==
    \E r1, r2 \in Runs :
        /\ uploaded_file[r1].size = 50 * 1024 * 1024 + 1
        /\ shown[r1] = "size_error"
        /\ uploaded_file[r2].size = 50 * 1024 * 1024
        /\ invoked[r2]
        /\ calls[r2] # << >>

\* C7 as claimed: two invocations use two distinct staged file paths and two
\* distinct remote handles, and the cleanup of each deletes only what the
\* same invocation created.
C7_DistinctPathsAndHandles ==
    \A r1, r2 \in Runs :
        r1 # r2 =>
            /\ (staged[r1] # None /\ staged[r2] # None) =>
                  staged[r1] # staged[r2]
            /\ (gemini_file[r1] # Unbound /\ gemini_file[r2] # Unbound) =>
                  gemini_file[r1] # gemini_file[r2]
            /\ cleaned[r1].local \subseteq {r1}
            /\ cleaned[r1].remote \subseteq {r1}

\* The run is between staging its file and removing it, and between the
\* upload and its delete request.
HoldsPath(r) ==
    /\ temp_path[r] # None
    /\ pc[r] \in {"upload", "generate", "finally", "remove"}
HoldsHandle(r) ==
    /\ gemini_file[r] # Unbound
    /\ pc[r] \in {"generate", "finally"}

\* C7 as amended: two staged files that exist at the same time have distinct
\* paths and two remote files stored at the same time have distinct handles
\* (a path or a handle may be given out again once the file that had it is
\* gone); the path an invocation holds until its os.remove, and the handle
\* it holds until its delete request, name the file the same invocation
\* created, and its cleanup deletes only what it created itself.
C7_NoSharingWhileBothExist ==
    /\ \A f, g \in disk : f.path = g.path => f = g
    /\ \A f, g \in remote : f.name = g.name => f = g
    /\ \A r \in Runs :
          /\ HoldsPath(r) =>
                \E f \in disk : f.path = temp_path[r] /\ f.by = r
          /\ HoldsHandle(r) =>
                \E f \in remote : f.name = gemini_file[r] /\ f.by = r
          /\ cleaned[r].local \subseteq {r}
          /\ cleaned[r].remote \subseteq {r}

\* C7, witness: two invocations given the same file name are both in their
\* finally clause, each holding its own staged file, and each has deleted
\* its own remote file.
C7_Witness ==
    \E r1, r2 \in Runs :
        /\ r1 # r2
        /\ uploaded_file[r1].name = uploaded_file[r2].name
        /\ pc[r1] = "remove" /\ pc[r2] = "remove"
        /\ exists(temp_path[r1]) /\ exists(temp_path[r2])
        /\ temp_path[r1] # temp_path[r2]
        /\ cleaned[r1].remote = {r1} /\ cleaned[r2].remote = {r2}

\* C8: when the API key is missing or the client cannot be built, the run
\* halts before anything is served: no upload widget is processed, the
\* function is not invoked and no remote call is issued; remote calls happen
\* only in a run that resolved the key and built the client.
C8_StartupFailureHalts ==
    \A r \in Runs :
        /\ (API_KEY[r] = None \/ client[r] = None) =>
              /\ pc[r] \in {"secrets", "client", "stopped", "crashed"}
              /\ uploaded_file[r] = NoFile
              /\ ~invoked[r]
              /\ staged[r] = None
              /\ calls[r] = << >>
              /\ shown[r] = None
        /\ pc[r] = "stopped" => (API_KEY[r] = None \/ client[r] = None)

\* C8, witness: one run halted on the missing key, another on the client
\* that could not be built.
C8_Witness ==
    \E r1, r2 \in Runs :
        /\ pc[r1] = "stopped" /\ API_KEY[r1] = None
        /\ pc[r2] = "stopped" /\ API_KEY[r2] # None /\ client[r2] = None

\* C9: within one invocation the remote calls are upload, then generate,
\* then delete, each at most once: generate only after the upload returned a
\* handle (and with that handle), delete only after generate returned or
\* failed, and a failed call is never issued again.
C9_CallOrder ==
    \A r \in Runs :
        LET c == calls[r]
        IN  /\ Len(c) <= 3
            /\ \A i \in 1..Len(c) :
                  c[i].op = CASE i = 1 -> "upload"
                              [] i = 2 -> "generate"
                              [] i = 3 -> "delete"
            /\ Len(c) >= 2 => c[1].ok /\ c[2].name = c[1].name
            /\ Len(c) >= 1 /\ ~c[1].ok => pc[r] \notin {"upload", "generate"}
            /\ Len(c) >= 2 => pc[r] \notin {"upload", "generate"}

\* C9, witness: an invocation ended after an upload, a failed generation call
\* and a delete, in that order.
C9_Witness ==
    \E r \in Runs :
        /\ InvocationEnded(r)
        /\ Len(calls[r]) = 3
        /\ ~calls[r][2].ok

\* C10: the caller never shows a failed analysis as a success: the text is
\* rendered, with "Process complete", only when the function returned a
\* non-empty text that does not start with "Analysis failed" and no except
\* clause ran; whenever the function returns through an except clause, or
\* returns an empty or absent text, the caller shows the failure message.
C10_FailureNeverShownAsSuccess ==
    \A r \in Runs :
        /\ shown[r] = "markdown" =>
              /\ outcome[r].kind = "returned"
              /\ failure[r] = NoFailure
              /\ outcome[r].text \notin {None, ""}
              /\ ~StartsWith(outcome[r].text, "Analysis failed")
        /\ ( /\ pc[r] = "done"
             /\ outcome[r].kind = "returned"
             /\ \/ failure[r] # NoFailure
                \/ outcome[r].text \in {None, ""} )
           => shown[r] = "failure"

\* C10, witness: one run showed the failure message after a generation
\* failure, one after an absent text, while rendering is reachable too.
C10_Witness ==
    \E r1, r2 \in Runs :
        /\ pc[r1] = "done" /\ failure[r1].step = "generate"
        /\ shown[r1] = "failure"
        /\ pc[r2] = "done" /\ failure[r2] = NoFailure
        /\ outcome[r2].kind = "returned" /\ outcome[r2].text = None
        /\ shown[r2] = "failure"

====
